---- MODULE Spec2Model ----
(***************************************************************************)
(* Model of the publication pipeline (update_project_publications.py) and  *)
(* of its version-control wrapper (orchestrate.py).                        *)
(*                                                                         *)
(* A Python string is a sequence of characters.  A character is a TLA+     *)
(* string; the fixed words the code's patterns look for ("http", "doi",    *)
(* "org", "eprints.soton.ac.uk") and host names are written as one         *)
(* character each (MultiChar), every other character stands for itself.    *)
(* Python's None and a missing dictionary key are the one-character       *)
(* sequences None and Missing, whose character no string contains.         *)
(***************************************************************************)
EXTENDS Integers, Sequences, FiniteSets, TLC

VARIABLES
    \* ---- Publication.add_link on its own (LinkSpec)
    lpc, harvard, doi, link,
    \* ---- Publication._format_authors on its own (AuthorsSpec)
    apc, persons, authors,
    \* ---- update_project_publications.main and its pool
    pc,               \* where main is: idle, start, map, returned, raised
    output_path,      \* main's argument
    listResp,         \* the answer to the identifier-list request
    publication_ids,
    task,             \* per listed identifier: queued, running, done
    fetched,          \* per task: the answer to its detail request
    results,          \* per task: what enrich_publication gave
    requests,         \* number of detail requests sent
    publications,     \* the list after the sort
    status,           \* main's return value
    exc,              \* the exception that left main
    file, stdout,     \* the strings written to the output file / printed
    \* ---- orchestrate.main
    opc,              \* off, pull, pipeline, commit, push, done, aborted, raised
    gitlog,           \* the git commands run, each with its outcome
    commits, pushed   \* commits made locally / of them on the remote

linkVars == <<lpc, harvard, doi, link>>
authorVars == <<apc, persons, authors>>
mainVars == <<listResp, publication_ids, task, fetched, results, requests,
              publications, status, exc, file, stdout>>
orchVars == <<opc, gitlog, commits, pushed>>
vars == <<linkVars, authorVars, pc, output_path, mainVars, orchVars>>

None == <<"<None>">>
Missing == <<"<Missing>">>
QUOTE == "\""
NL == "\n"
EPRINTS == "eprints.soton.ac.uk"
OTHERHOST == "example.org"
MultiChar == {"http", "doi", "org", EPRINTS, OTHERHOST}

\* ------------------------------------------------------------------------
\* Bounds
MaxPieces == 3
MaxPersons == 3
MaxIds == 3

\* ------------------------------------------------------------------------
\* Python helpers

RECURSIVE Concat(_)
Concat(ss) == IF ss = <<>> THEN <<>> ELSE Head(ss) \o Concat(Tail(ss))

\* `sub in s` for a one-character sub
Contains(s, c) == \E k \in 1..Len(s) : s[k] = c

\* bool(x) of a string or None
Truthy(x) == x # None /\ x # <<>>

\* sep.join(xs) for a list of strings
RECURSIVE Join(_, _)
Join(sep, xs) ==
    IF xs = <<>> THEN <<>>
    ELSE IF Len(xs) = 1 THEN xs[1]
    ELSE xs[1] \o sep \o Join(sep, Tail(xs))

\* an exception of class e leaving a function instead of a value
Raise(e) == <<"<raise>", e>>
IsRaise(x) == Len(x) = 2 /\ x[1] = "<raise>"

\* ------------------------------------------------------------------------
\* URL_REGEX = (https?:.*?)"  (line 19).  '.' does not match a newline.

\* the lazy .*? followed by the quote: index of the first quote at or after
\* k with no newline before it, 0 if there is none
RECURSIVE LazyToQuote(_, _)
LazyToQuote(s, k) ==
    IF k > Len(s) THEN 0
    ELSE IF s[k] = QUOTE THEN k
    ELSE IF s[k] = NL THEN 0
    ELSE LazyToQuote(s, k + 1)

\* index just after `https?:` when it matches at i, 0 otherwise
SchemeAt(s, i) ==
    IF i > Len(s) \/ s[i] # "http" THEN 0
    ELSE LET j == IF i + 1 <= Len(s) /\ s[i + 1] = "s" THEN i + 2 ELSE i + 1
         IN  IF j <= Len(s) /\ s[j] = ":" THEN j + 1 ELSE 0

\* index of the closing quote of a match of URL_REGEX starting at i, else 0
UrlMatchAt(s, i) ==
    LET k == SchemeAt(s, i) IN IF k = 0 THEN 0 ELSE LazyToQuote(s, k)

\* re.findall(URL_REGEX, s): group 1 of the non-overlapping matches,
\* scanning from the left, starting at index i
RECURSIVE FindAllUrls(_, _)
FindAllUrls(s, i) ==
    IF i > Len(s) THEN <<>>
    ELSE LET e == UrlMatchAt(s, i)
         IN  IF e # 0 THEN <<SubSeq(s, i, e - 1)>> \o FindAllUrls(s, e + 1)
             ELSE FindAllUrls(s, i + 1)

\* ------------------------------------------------------------------------
\* DOI_LINK_DISPLAY_REGEX = https?://doi.org/(.*)  (line 20).  The '.' of
\* doi.org is unescaped: it matches any one character but a newline.

\* index of the last character of the line that position k is on (k - 1
\* when the line is empty from k on): the greedy (.*)
RECURSIVE EndOfLine(_, _)
EndOfLine(s, k) ==
    IF k > Len(s) \/ s[k] = NL THEN k - 1 ELSE EndOfLine(s, k + 1)

\* index of the first character of group 1 when the pattern matches at i
DoiMatchAt(s, i) ==
    LET k == SchemeAt(s, i)
    IN  IF k = 0 \/ k + 5 > Len(s) THEN 0
        ELSE IF /\ s[k] = "/" /\ s[k + 1] = "/" /\ s[k + 2] = "doi"
                /\ s[k + 3] \notin MultiChar /\ s[k + 3] # NL
                /\ s[k + 4] = "org" /\ s[k + 5] = "/"
             THEN k + 6 ELSE 0

\* re.findall(DOI_LINK_DISPLAY_REGEX, s) from index i
RECURSIVE FindAllDoi(_, _)
FindAllDoi(s, i) ==
    IF i > Len(s) THEN <<>>
    ELSE LET g == DoiMatchAt(s, i)
         IN  IF g # 0
             THEN <<SubSeq(s, g, EndOfLine(s, g))>> \o FindAllDoi(s, EndOfLine(s, g) + 1)
             ELSE FindAllDoi(s, i + 1)

\* ------------------------------------------------------------------------
\* Publication link resolution.  A link state is the pair of fields
\* (link_url, link_display) plus the warnings logged on the way.

NO_DOI_LINK_DISPLAY == <<"Read more">>
NoLink == [link_url |-> <<>>, link_display |-> <<>>, log |-> <<>>]

Warn(l, w) == [l EXCEPT !.log = @ \o <<w>>]

\* Publication.add_link_from_doi, applied to the link state l
add_link_from_doi(l, d) ==
    LET doi_number == FindAllDoi(d, 1)
    IN  IF Len(doi_number) = 0 THEN Warn(l, "Bad DOI")
        ELSE LET l1 == IF 1 < Len(doi_number)
                       THEN Warn(l, "Too many display options for DOI") ELSE l
             IN  [l1 EXCEPT !.link_url = d, !.link_display = doi_number[1]]

\* the test of line 66: a substring test on the extracted URL
IsEprintsUrl(s) == Contains(s, EPRINTS)

\* list(filter(lambda s: "eprints.soton.ac.uk" in s, urls))
RECURSIVE EprintsUrls(_)
EprintsUrls(urls) ==
    IF urls = <<>> THEN <<>>
    ELSE (IF IsEprintsUrl(Head(urls)) THEN <<Head(urls)>> ELSE <<>>)
             \o EprintsUrls(Tail(urls))

\* Publication.add_link, applied to the fresh link state of __init__
add_link(h, d) ==
    LET urls == FindAllUrls(h, 1)
        eprints_urls == EprintsUrls(urls)
        use_eprints(l) ==
            [l EXCEPT !.link_url = eprints_urls[1], !.link_display = NO_DOI_LINK_DISPLAY]
    IN  IF Len(urls) = 0
        THEN IF Truthy(d)
             THEN add_link_from_doi(
                      Warn(NoLink, "No URLs found in Harvard text, using DOI backup"), d)
             ELSE Warn(NoLink, "No URLs found")
        ELSE IF 1 < Len(eprints_urls)
             THEN use_eprints(Warn(NoLink, "Too many eprints URLs found"))
        ELSE IF 0 = Len(eprints_urls)
             THEN IF Truthy(d) THEN add_link_from_doi(NoLink, d)
                  ELSE [Warn(NoLink, "No eprints URLs found, using URL")
                            EXCEPT !.link_url = urls[1],
                                   !.link_display = NO_DOI_LINK_DISPLAY]
        ELSE use_eprints(NoLink)

\* ------------------------------------------------------------------------
\* Inputs of the link resolver: a citation text is up to MaxPieces pieces
\* of anchor markup and free text, in any order.

HttpsUrl(host, path) == <<"http", "s", ":", "/", "/", host>> \o path

Pieces ==
    { <<"x">>,
      <<NL>>,
      HttpsUrl(EPRINTS, <<"/", "1">>) \o <<QUOTE>>,
      <<"http", ":", "/", "/", EPRINTS, "/", "2", QUOTE>>,
      HttpsUrl(OTHERHOST, <<"/", EPRINTS>>) \o <<QUOTE>>,
      HttpsUrl(OTHERHOST, <<"/", "3">>) \o <<QUOTE>>,
      HttpsUrl(EPRINTS, <<"/", "4">>) }

RECURSIVE Texts(_)
Texts(n) ==
    IF n = 0 THEN {<<>>}
    ELSE Texts(n - 1) \cup { t \o p : t \in Texts(n - 1), p \in Pieces }

DoiPrefix == <<"http", "s", ":", "/", "/", "doi", ".", "org", "/">>
Suffixes == { <<"1", "0">>, <<"1", "0", "/", "x">>, <<"x">> }

Dois ==
    {None, <<>>}
    \cup { DoiPrefix \o x : x \in Suffixes }
    \cup { <<"http", ":", "/", "/", "doi", ".", "org", "/", "1">>,
           <<"1", "0", "/", "x">>,
           <<"doi", ":", "1", "0">>,
           DoiPrefix \o <<"1", NL>> \o DoiPrefix \o <<"2">>,
           <<"x">> \o DoiPrefix \o <<"1">> }

\* ------------------------------------------------------------------------
\* Publication._format_authors

AUTHOR_NAME_FORMAT(firstname, lastname) == firstname \o <<" ">> \o lastname

\* the list comprehension of lines 40-41: one entry per contributor
AuthorEntries(ps) ==
    [k \in 1..Len(ps) |->
        IF ps[k].role = "Author"
        THEN AUTHOR_NAME_FORMAT(ps[k].firstname, ps[k].lastname) ELSE None]

\* ", ".join(authors): str.join raises TypeError on an item that is not a str
format_authors(ps) ==
    LET entries == AuthorEntries(ps)
    IN  IF \E k \in 1..Len(entries) : entries[k] = None
        THEN Raise("TypeError")
        ELSE Join(<<",", " ">>, entries)

\* Inputs of _format_authors: up to MaxPersons contributors
People ==
    [firstname : {<<"A">>, <<"B", "o">>},
     lastname : {<<"S", "m">>, <<"J">>},
     role : {"Author", "Editor"}]

RECURSIVE PersonLists(_)
PersonLists(n) ==
    IF n = 0 THEN {<<>>}
    ELSE PersonLists(n - 1) \cup { l \o <<q>> : l \in PersonLists(n - 1), q \in People }

\* ------------------------------------------------------------------------
\* Publication.__init__ and __str__.  The None of an Optional[Publication]
\* or Optional[Dict] is the record NoneObj; an exception leaving a call that
\* returns an object is the record Raised(e).

NoneObj == [kind |-> "None"]
Raised(e) == [kind |-> "raise", exc |-> e]

Publication(pure_id, details) ==
    IF details.title = Missing THEN Raised("KeyError")
    ELSE LET auth == format_authors(details.persons)
         IN  IF IsRaise(auth) THEN Raised("TypeError")
             ELSE IF Len(details.persons) = 0 THEN Raised("IndexError")
             ELSE LET l == add_link(details.harvard, details.doi)
                      unknown == ~(Truthy(details.title) /\ Truthy(auth)
                                                        /\ Truthy(l.link_url))
                  IN  [kind |-> "Publication",
                       pure_id |-> pure_id,
                       title |-> details.title,
                       authors |-> auth,
                       first_author |-> details.persons[1].lastname,
                       year |-> details.year,
                       harvard |-> details.harvard,
                       link_url |-> l.link_url,
                       link_display |-> l.link_display,
                       description |-> <<>>,
                       log |-> l.log \o (IF unknown THEN <<"Unknown details">> ELSE <<>>)]

\* str(n) of a natural number
RECURSIVE Str(_)
Str(n) ==
    LET digit == <<"0", "1", "2", "3", "4", "5", "6", "7", "8", "9">>[(n % 10) + 1]
    IN  IF n < 10 THEN <<digit>> ELSE Str(n \div 10) \o <<digit>>

\* Publication.__str__
PublicationStr(p) ==
    <<"- title: ", QUOTE>> \o p.title \o <<QUOTE, NL>>
    \o <<"  description: ">> \o p.description \o <<NL>>
    \o <<"  authors: ">> \o p.authors \o <<NL>>
    \o <<"  year: ">> \o Str(p.year) \o <<NL>>
    \o <<"  harvard: |", NL, "    ">> \o p.harvard \o <<NL>>
    \o <<"  link:", NL>>
    \o <<"    url: ">> \o p.link_url \o <<NL>>
    \o <<"    display: ">> \o p.link_display \o <<NL>>

\* ------------------------------------------------------------------------
\* rest_get, get_publication_ids, enrich_publication.  What requests.get
\* does is the environment's choice: it raises ConnectionError or returns
\* a response with a status code and a JSON body.

ConnectionError == [kind |-> "ConnectionError"]
Response(code, body) == [kind |-> "response", status_code |-> code, json |-> body]

rest_get(resp) ==
    IF resp.kind = "ConnectionError" THEN NoneObj
    ELSE IF resp.status_code # 200 THEN NoneObj
    ELSE resp.json

\* variant: an empty list instead of None when the fetch failed
get_publication_ids_EmptyOnFailure(resp) ==
    LET project_publications == rest_get(resp)
    IN  IF project_publications = NoneObj THEN <<>>
        ELSE [k \in 1..Len(project_publications.outputs) |->
                 project_publications.outputs[k].pureId]

\* the list of Pure IDs, or None (as a list: the sequence None)
get_publication_ids(resp) ==
    LET project_publications == rest_get(resp)
    IN  IF project_publications = NoneObj THEN None
        ELSE [k \in 1..Len(project_publications.outputs) |->
                 project_publications.outputs[k].pureId]

enrich_publication(pure_id, resp) ==
    LET publication_details == rest_get(resp)
    IN  IF publication_details = NoneObj THEN NoneObj
        ELSE IF publication_details.count # 1 THEN NoneObj
        ELSE Publication(pure_id, publication_details.publications[1])

\* ------------------------------------------------------------------------
\* The sort of line 158: list.sort is stable, the key is
\* (-year, first_author), strings compare by code point.

Ord(c) ==
    CASE c = "A" -> 65 [] c = "J" -> 74 [] c = "S" -> 83
      [] c = "a" -> 97 [] c = "d" -> 100 [] c = "m" -> 109 [] c = "o" -> 111

RECURSIVE StrLess(_, _)
StrLess(a, b) ==
    IF b = <<>> THEN FALSE
    ELSE IF a = <<>> THEN TRUE
    ELSE IF Ord(Head(a)) # Ord(Head(b)) THEN Ord(Head(a)) < Ord(Head(b))
    ELSE StrLess(Tail(a), Tail(b))

\* variant: the year not negated
SortKey_YearAscending(p) == <<p.year, p.first_author>>

SortKey(p) == <<0 - p.year, p.first_author>>

KeyLess(ka, kb) == ka[1] < kb[1] \/ (ka[1] = kb[1] /\ StrLess(ka[2], kb[2]))

\* insert p after every element whose key is not greater than p's
RECURSIVE SortedInsert(_, _)
SortedInsert(sorted, p) ==
    IF sorted = <<>> THEN <<p>>
    ELSE IF KeyLess(SortKey(p), SortKey(Head(sorted))) THEN <<p>> \o sorted
    ELSE <<Head(sorted)>> \o SortedInsert(Tail(sorted), p)

RECURSIVE SortPublications(_)
SortPublications(ps) ==
    IF ps = <<>> THEN <<>>
    ELSE SortedInsert(SortPublications(SubSeq(ps, 1, Len(ps) - 1)), ps[Len(ps)])

\* write_publications / the print loop: the strings written, in order
WrittenStrings(ps) == Concat([k \in 1..Len(ps) |-> <<PublicationStr(ps[k]), <<NL>>>>])

\* ------------------------------------------------------------------------
\* The remote API: what it can answer to the two requests

Ids == <<"p1", "p2", "p3", "p4", "p5">>

Person(fn, ln, role) == [firstname |-> fn, lastname |-> ln, role |-> role]
Adams == <<"A", "d">>
Jones == <<"J", "o">>
Smith == <<"S", "m">>

EprintsCitation == <<"x", QUOTE>> \o HttpsUrl(EPRINTS, <<"/", "1">>) \o <<QUOTE>>

Details(title, ps, year, h) ==
    [title |-> title, persons |-> ps, year |-> year, harvard |-> h, doi |-> None]

RawDetails ==
    { Details(<<"T">>, <<Person(<<"A">>, Smith, "Author")>>, 2021, EprintsCitation),
      Details(<<"T">>, <<Person(<<"A">>, Jones, "Author")>>, 2020, EprintsCitation),
      Details(<<"T">>, <<Person(<<"A">>, Adams, "Author")>>, 2021, EprintsCitation),
      \* data-quality conditions: empty or missing title, no link, no author
      Details(<<>>, <<Person(<<"A">>, Adams, "Author")>>, 2020, EprintsCitation),
      Details(Missing, <<Person(<<"A">>, Adams, "Author")>>, 2020, EprintsCitation),
      Details(<<"T">>, <<Person(<<"A">>, Jones, "Author")>>, 2021, <<"x">>),
      Details(<<"T">>, <<Person(<<"A">>, Smith, "Editor")>>, 2021, EprintsCitation),
      Details(<<"T">>, <<>>, 2021, EprintsCitation) }

ListResponses ==
    { ConnectionError, Response(404, NoneObj) }
    \cup { Response(200, [outputs |-> [k \in 1..n |-> [pureId |-> Ids[k]]]]) : n \in 0..MaxIds }

DetailResponses ==
    { ConnectionError, Response(500, NoneObj),
      Response(200, [count |-> 0, publications |-> <<>>]) }
    \cup { Response(200, [count |-> 1, publications |-> <<d>>]) : d \in RawDetails }

\* ------------------------------------------------------------------------
\* update_project_publications.main and the worker pool

NUM_PROCESSES == 8
NoStatus == 0 - 1
Unset == <<"<unset>">>
NoResponse == [kind |-> "none"]
Pending == [kind |-> "pending"]
PriorFile == <<<<"prior">>>>
PUBLIST_PATH == <<"_data/publist.yml">>
RepoPublist == Join(<<"/">>, <<<<"repo">>, PUBLIST_PATH>>)

\* variant: the result is ready as soon as one task came back with None
MapReady_FailFast(t, rs) ==
    \/ \A k \in 1..Len(t) : t[k] = "done"
    \/ \E k \in 1..Len(rs) : rs[k] = NoneObj

\* MapResult: the result of pool.map over tasks t with results rs is ready
\* once no task is left
MapReady(t, rs) == \A k \in 1..Len(t) : t[k] = "done"

\* MapResult._set: the result of task k goes to position k
MapStore(rs, k, r) == [rs EXCEPT ![k] = r]

\* lines 148-154: fetch the identifier list, abort or hand every identifier
\* to the pool
MainStart ==
    /\ pc = "start"
    /\ \E resp \in ListResponses :
          LET ids == get_publication_ids(resp)
          IN  /\ listResp' = resp
              /\ publication_ids' = ids
              /\ IF ids = None
                 THEN /\ status' = 1
                      /\ pc' = "returned"
                      /\ UNCHANGED <<task, results>>
                 ELSE /\ pc' = "map"
                      /\ task' = [k \in 1..Len(ids) |-> "queued"]
                      /\ results' = [k \in 1..Len(ids) |-> Pending]
                      /\ UNCHANGED status
    /\ UNCHANGED <<fetched, requests, exc, publications, file, stdout,
                   output_path, orchVars, linkVars, authorVars>>

\* a free pool worker takes the next task off the queue and sends the
\* detail request of enrich_publication
WorkerStart(k) ==
    /\ pc = "map"
    /\ task[k] = "queued"
    /\ \A j \in 1..(k - 1) : task[j] # "queued"
    /\ Cardinality({j \in 1..Len(task) : task[j] = "running"}) < NUM_PROCESSES
    /\ task' = [task EXCEPT ![k] = "running"]
    /\ requests' = requests + 1
    /\ UNCHANGED <<pc, publication_ids, listResp, results, fetched, status, exc,
                   publications, file, stdout, output_path, orchVars,
                   linkVars, authorVars>>

\* the detail request returns and enrich_publication runs to its end
WorkerFinish(k) ==
    /\ pc = "map"
    /\ task[k] = "running"
    /\ \E resp \in DetailResponses :
          /\ fetched' = [fetched EXCEPT ![k] = resp]
          /\ results' = MapStore(results, k, enrich_publication(publication_ids[k], resp))
    /\ task' = [task EXCEPT ![k] = "done"]
    /\ UNCHANGED <<pc, publication_ids, listResp, requests, status, exc,
                   publications, file, stdout, output_path, orchVars,
                   linkVars, authorVars>>

\* lines 154-165: pool.map returns or re-raises a task's exception; then
\* the None test, the sort and the output
MainJoin ==
    /\ pc = "map"
    /\ MapReady(task, results)
    /\ IF \E k \in 1..Len(results) : results[k].kind = "raise"
       THEN /\ \E k \in 1..Len(results) :
                  results[k].kind = "raise" /\ exc' = results[k].exc
            /\ pc' = "raised"
            /\ UNCHANGED <<status, publications, file, stdout>>
       ELSE IF \E k \in 1..Len(results) : results[k] = NoneObj
       THEN /\ status' = 1
            /\ pc' = "returned"
            /\ UNCHANGED <<exc, publications, file, stdout>>
       ELSE /\ publications' = SortPublications(results)
            /\ IF Truthy(output_path)
               THEN file' = WrittenStrings(publications') /\ UNCHANGED stdout
               ELSE stdout' = stdout \o WrittenStrings(publications') /\ UNCHANGED file
            /\ status' = 0
            /\ pc' = "returned"
            /\ UNCHANGED exc
    /\ UNCHANGED <<publication_ids, listResp, task, results, fetched, requests,
                   output_path, orchVars, linkVars, authorVars>>

\* ------------------------------------------------------------------------
\* orchestrate.main.  Every subprocess.run(check=True) either succeeds or
\* raises CalledProcessError, which the except clause turns into a return.

\* variant: the test inverted
PipelineAborted_Inverted(s) == s = 0

\* the test of line 18
PipelineAborted(s) == s # 0

Ran(cmd, ok) == gitlog \o <<[cmd |-> cmd, ok |-> ok]>>

\* line 16, then the call of line 17
GitPull ==
    /\ opc = "pull"
    /\ \E ok \in BOOLEAN :
          /\ gitlog' = Ran("pull", ok)
          /\ IF ok THEN opc' = "pipeline" /\ pc' = "start"
                   ELSE opc' = "aborted" /\ UNCHANGED pc
    /\ UNCHANGED <<commits, pushed, mainVars, output_path, linkVars, authorVars>>

\* lines 17-21: the pipeline comes back; its exception is not a
\* CalledProcessError and leaves orchestrate.main, its status decides
\* whether git add runs
GitAdd ==
    /\ opc = "pipeline"
    /\ pc \in {"returned", "raised"}
    /\ IF pc = "raised" THEN opc' = "raised" /\ UNCHANGED gitlog
       ELSE IF PipelineAborted(status) THEN opc' = "aborted" /\ UNCHANGED gitlog
       ELSE \E ok \in BOOLEAN :
               /\ gitlog' = Ran("add", ok)
               /\ opc' = IF ok THEN "commit" ELSE "aborted"
    /\ UNCHANGED <<commits, pushed, pc, mainVars, output_path, linkVars, authorVars>>

\* line 22
GitCommit ==
    /\ opc = "commit"
    /\ \E ok \in BOOLEAN :
          /\ gitlog' = Ran("commit", ok)
          /\ commits' = IF ok THEN commits + 1 ELSE commits
          /\ opc' = IF ok THEN "push" ELSE "aborted"
    /\ UNCHANGED <<pushed, pc, mainVars, output_path, linkVars, authorVars>>

\* line 23
GitPush ==
    /\ opc = "push"
    /\ \E ok \in BOOLEAN :
          /\ gitlog' = Ran("push", ok)
          /\ pushed' = IF ok THEN commits ELSE pushed
          /\ opc' = IF ok THEN "done" ELSE "aborted"
    /\ UNCHANGED <<commits, pc, mainVars, output_path, linkVars, authorVars>>

\* ------------------------------------------------------------------------
\* The program: started through orchestrate.py (opc = "pull") or as
\* update_project_publications.py with or without an output path

Init ==
    /\ opc \in {"off", "pull"}
    /\ output_path \in (IF opc = "off" THEN {None, RepoPublist} ELSE {RepoPublist})
    /\ pc = IF opc = "off" THEN "start" ELSE "idle"
    /\ publication_ids = Unset
    /\ listResp = NoResponse
    /\ task = <<>>
    /\ results = <<>>
    /\ fetched = [k \in 1..MaxIds |-> NoResponse]
    /\ requests = 0
    /\ status = NoStatus
    /\ exc = "none"
    /\ publications = <<>>
    /\ file = PriorFile
    /\ stdout = <<>>
    /\ gitlog = <<>>
    /\ commits = 0
    /\ pushed = 0
    /\ lpc = "off" /\ harvard = <<>> /\ doi = None /\ link = NoLink
    /\ apc = "off" /\ persons = <<>> /\ authors = None

Next ==
    \/ MainStart
    \/ \E k \in 1..Len(task) : WorkerStart(k)
    \/ \E k \in 1..Len(task) : WorkerFinish(k)
    \/ MainJoin
    \/ GitPull
    \/ GitAdd
    \/ GitCommit
    \/ GitPush

Spec == Init /\ [][Next]_vars

\* ------------------------------------------------------------------------
\* The link resolver on its own

\* main and orchestrate.main are not running
PipelineOff ==
    /\ pc = "off" /\ output_path = None /\ listResp = NoResponse
    /\ publication_ids = Unset /\ task = <<>> /\ results = <<>>
    /\ fetched = [k \in 1..MaxIds |-> NoResponse]
    /\ requests = 0 /\ status = NoStatus /\ exc = "none" /\ publications = <<>>
    /\ file = PriorFile /\ stdout = <<>>
    /\ opc = "off" /\ gitlog = <<>> /\ commits = 0 /\ pushed = 0

LinkInit ==
    /\ lpc = "init"
    /\ harvard \in Texts(MaxPieces)
    /\ doi \in Dois
    /\ link = NoLink
    /\ apc = "off" /\ persons = <<>> /\ authors = None
    /\ PipelineOff

AddLink ==
    /\ lpc = "init"
    /\ link' = add_link(harvard, doi)
    /\ lpc' = "done"
    /\ UNCHANGED <<harvard, doi, authorVars, pc, output_path, mainVars, orchVars>>

LinkNext == AddLink

LinkSpec == LinkInit /\ [][LinkNext]_vars

\* ------------------------------------------------------------------------
\* The author formatter on its own

AuthorsInit ==
    /\ apc = "init"
    /\ persons \in PersonLists(MaxPersons)
    /\ authors = None
    /\ lpc = "off" /\ harvard = <<>> /\ doi = None /\ link = NoLink
    /\ PipelineOff

FormatAuthors ==
    /\ apc = "init"
    /\ authors' = format_authors(persons)
    /\ apc' = "done"
    /\ UNCHANGED <<persons, linkVars, pc, output_path, mainVars, orchVars>>

AuthorsNext == FormatAuthors

AuthorsSpec == AuthorsInit /\ [][AuthorsNext]_vars

\* ------------------------------------------------------------------------
\* Claims about the link resolver and the author formatter

\* the host of an extracted URL is the institutional repository host
HasInstitutionalHost(u) ==
    LET k == SchemeAt(u, 1)
    IN  /\ k # 0 /\ k + 2 <= Len(u)
        /\ u[k] = "/" /\ u[k + 1] = "/" /\ u[k + 2] = EPRINTS
        /\ (Len(u) = k + 2 \/ u[k + 3] = "/")

RECURSIVE WithInstitutionalHost(_)
WithInstitutionalHost(urls) ==
    IF urls = <<>> THEN <<>>
    ELSE (IF HasInstitutionalHost(Head(urls)) THEN <<Head(urls)>> ELSE <<>>)
             \o WithInstitutionalHost(Tail(urls))

InstitutionalUrls(h) == WithInstitutionalHost(FindAllUrls(h, 1))

\* C4: when some URL extracted from the citation text has the institutional
\* host, the link is the first such URL with the label "Read more", whatever
\* the DOI, a warning is logged when there are several, and a URL of another
\* host never counts as institutional.
C4_InstitutionalPreferred ==
    (lpc = "done" /\ Len(InstitutionalUrls(harvard)) >= 1) =>
        /\ link.link_url = InstitutionalUrls(harvard)[1]
        /\ link.link_display = NO_DOI_LINK_DISPLAY
        /\ (Len(InstitutionalUrls(harvard)) > 1 =>
                Contains(link.log, "Too many eprints URLs found"))
        /\ (Len(InstitutionalUrls(harvard)) = 1 =>
                ~Contains(link.log, "Too many eprints URLs found"))

\* C5: when no URL extracted from the citation text is institutional and a
\* DOI is present, the link is the DOI-based one: (doi, X) for a well-formed
\* DOI https://doi.org/X, ("", "") when the DOI pattern finds nothing.
C5_DoiFallback ==
    (lpc = "done" /\ Truthy(doi) /\ Len(InstitutionalUrls(harvard)) = 0) =>
        /\ \A x \in Suffixes :
              doi = DoiPrefix \o x => link.link_url = doi /\ link.link_display = x
        /\ FindAllDoi(doi, 1) = <<>> => link.link_url = <<>> /\ link.link_display = <<>>

RECURSIVE AuthorsOnly(_)
AuthorsOnly(ps) ==
    IF ps = <<>> THEN <<>>
    ELSE (IF Head(ps).role = "Author" THEN <<Head(ps)>> ELSE <<>>)
             \o AuthorsOnly(Tail(ps))

\* C7: for every contributor list the authors string is the "<firstname>
\* <lastname>" of the contributors with the author role, in source order,
\* joined with ", "; the others are dropped and the build succeeds.
C7_AuthorsFiltered ==
    apc = "done" =>
        LET kept == AuthorsOnly(persons)
        IN  authors = Join(<<",", " ">>,
                [k \in 1..Len(kept) |->
                    kept[k].firstname \o <<" ">> \o kept[k].lastname])

\* ------------------------------------------------------------------------
\* Claims about the pipeline and its wrapper

\* the remote call answered with a transport failure or a non-success status
FetchFailed(resp) ==
    IF resp.kind = "ConnectionError" THEN TRUE
    ELSE resp.kind = "response" /\ resp.status_code # 200

\* the detail retrieval of task k failed: fetch failure or count not 1
RetrievalFailed(k) ==
    \/ FetchFailed(fetched[k])
    \/ (fetched[k].kind = "response" /\ fetched[k].status_code = 200
            /\ fetched[k].json.count # 1)

\* task k received exactly one detail record
GotDetails(k) ==
    fetched[k].kind = "response" /\ fetched[k].status_code = 200
        /\ fetched[k].json.count = 1

MainOver == pc \in {"returned", "raised"}
NothingWritten == file = PriorFile /\ stdout = <<>>
Emitted == IF Truthy(output_path) THEN file ELSE stdout

\* C1: when the detail retrieval of at least one identifier fails, the run
\* returns the aborted status 1 and writes or prints no block at all.
C1_AllOrNothing ==
    (MainOver /\ \E k \in 1..Len(task) : RetrievalFailed(k)) =>
        (pc = "returned" /\ status = 1 /\ NothingWritten)

\* C2: when the identifier-list fetch fails, main returns the aborted status
\* at once: no task is dispatched, no detail request sent, nothing written.
C2_ListFailureAborts ==
    FetchFailed(listResp) =>
        /\ pc = "returned" /\ status = 1
        /\ task = <<>> /\ results = <<>> /\ requests = 0
        /\ NothingWritten

C2_Witness == FetchFailed(listResp) /\ pc = "returned" /\ status = 1

\* C3: whatever the remote calls and the worker tasks do, main ends by
\* returning status 0 or 1; no exception leaves it.
C3_NeverRaises ==
    MainOver => (pc = "returned" /\ status \in {0, 1})

\* position of an identifier in the listing
ListingIndex(id) == CHOOSE k \in 1..Len(publication_ids) : publication_ids[k] = id

\* C6: on success the emitted blocks are those of a permutation of the
\* built Publications, one per listed identifier, ordered by year
\* descending, then first_author ascending, ties in listing order.
C6_SortedStable ==
    (pc = "returned" /\ status = 0) =>
        /\ Len(publications) = Len(publication_ids)
        /\ \A k \in 1..Len(results) :
              \E j \in 1..Len(publications) : publications[j] = results[k]
        /\ \A k \in 1..Len(publication_ids) :
              results[k].pure_id = publication_ids[k]
        /\ \A i, j \in 1..Len(publications) :
              i < j =>
                LET a == publications[i]
                    b == publications[j]
                IN  \/ a.year > b.year
                    \/ a.year = b.year /\ StrLess(a.first_author, b.first_author)
                    \/ /\ a.year = b.year /\ a.first_author = b.first_author
                       /\ ListingIndex(a.pure_id) < ListingIndex(b.pure_id)
        /\ Emitted = [k \in 1..(2 * Len(publications)) |->
                         IF k % 2 = 1 THEN PublicationStr(publications[(k + 1) \div 2])
                         ELSE <<NL>>]

\* a successful run whose sort moved a record and kept a tie in listing order
C6_Witness ==
    /\ pc = "returned" /\ status = 0
    /\ Len(publications) >= 3
    /\ publications # results
    /\ \E i, j \in 1..Len(publications) :
          /\ i < j
          /\ publications[i].year = publications[j].year
          /\ publications[i].first_author = publications[j].first_author

\* a detail record with a non-fatal data-quality condition
DataQualityCondition(d) ==
    \/ d.title \in {Missing, <<>>}
    \/ \A k \in 1..Len(d.persons) : d.persons[k].role # "Author"
    \/ add_link(d.harvard, d.doi).link_url = <<>>

\* C8: a record whose title is missing or empty, that has no author, or
\* whose link cannot be resolved still becomes a Publication, and a run in
\* which every retrieval succeeded still returns success with every block.
C8_DataQualityNonFatal ==
    /\ \A k \in 1..Len(task) :
          (task[k] = "done" /\ GotDetails(k)
              /\ DataQualityCondition(fetched[k].json.publications[1]))
          => results[k].kind = "Publication"
    /\ (/\ MainOver /\ ~FetchFailed(listResp)
        /\ \A k \in 1..Len(task) : GotDetails(k)
        /\ \E k \in 1..Len(task) :
              DataQualityCondition(fetched[k].json.publications[1])) =>
          (pc = "returned" /\ status = 0 /\ Len(Emitted) = 2 * Len(task))

CmdOrder == <<"pull", "add", "commit", "push">>

\* the git commands run in order, each only after the one before succeeded,
\* and add only after the pipeline returned success
GitStepsGated ==
    /\ Len(gitlog) <= 4
    /\ \A k \in 1..Len(gitlog) : gitlog[k].cmd = CmdOrder[k]
    /\ \A k \in 1..(Len(gitlog) - 1) : gitlog[k].ok
    /\ Len(gitlog) >= 2 => (pc = "returned" /\ status = 0)
    /\ commits = (IF Len(gitlog) >= 3 /\ gitlog[3].ok THEN 1 ELSE 0)
    /\ pushed = (IF Len(gitlog) >= 4 /\ gitlog[4].ok THEN 1 ELSE 0)

OrchFailed == opc \in {"aborted", "raised"}

C10_Barrier ==
    /\ (\E k \in 1..Len(task) : task[k] # "done") =>
          /\ pc = "map" /\ status = NoStatus
          /\ publications = <<>> /\ NothingWritten
    /\ (MainOver /\ ~FetchFailed(listResp)) =>
          /\ Len(task) = Len(publication_ids)
          /\ requests = Len(task)
          /\ \A k \in 1..Len(task) :
                task[k] = "done" /\ fetched[k] # NoResponse /\ results[k] # Pending
    /\ (MainOver /\ \E k \in 1..Len(results) : results[k] = NoneObj) => NothingWritten

\* the first task failed, a sibling was built, and the run is over
C10_Witness ==
    /\ MainOver
    /\ Len(task) >= 2
    /\ results[1] = NoneObj
    /\ \E k \in 2..Len(task) : results[k].kind = "Publication"

====
